---- MODULE Spec2Model ----
(***************************************************************************)
(* The billing / inventory settlement routes of invoice-flow:              *)
(*   POST   /api/bills        (createBill)                                 *)
(*   PUT    /api/bills/[id]   (updateBillHeader)                           *)
(*   PATCH  /api/bills/[id]   (updateBillStatus)                           *)
(*   DELETE /api/bills/[id]   (deleteBill)                                 *)
(* Every `await db...` of a handler is one atomic step; the handlers run   *)
(* without a database transaction, so steps of concurrent requests         *)
(* interleave and a statement that throws leaves the earlier ones applied. *)
(*                                                                         *)
(* Quantities are whole numbers of the smallest stock unit; money is kept  *)
(* in 1/10000 of the currency unit so that subtotal * taxRate / 100 is     *)
(* exact for prices in whole cents.                                        *)
(***************************************************************************)
EXTENDS Integers, Sequences, FiniteSets, TLC

\* ------------------------------------------------------------------ bounds
MaxCalls == 2        \* requests issued in one behaviour

Procs      == {"r1", "r2"}          \* concurrent request handlers
Users      == {"u1", "u2"}          \* session.user.id
Clients    == {"c1"}
Lots       == {"L1", "L2"}          \* inventory.id
Quantities == {1, 2}                \* item.quantity of a request line
Prices     == {500}                 \* item.sellingPrice (0.05)
TaxRates   == {10}
Charges    == {<<>>, <<30000>>}     \* extraCharges amounts (none, or 3.00)
Statuses   == {"due"}               \* status of a POST body
LineCounts == {1, 2}                \* items.length of a request
BillIds    == 1..(MaxCalls + 1)   \* every id the database can hand out

VARIABLES
    inventory,          \* table inventory: lot id -> row (absent when deleted)
    bills,              \* table bills: bill id -> row
    billItems,          \* table bill_items: bill id -> rows in insertion order
    billExtraCharges,   \* table bill_extra_charges: bill id -> rows
    nextId,             \* next bills.id the database generates
    handler,            \* per request handler: its locals and position
    calls,              \* requests issued so far
    sequential          \* TRUE when a request begins only after the others returned

vars == <<inventory, bills, billItems, billExtraCharges, nextId, handler, calls,
          sequential>>
db   == <<inventory, bills, billItems, billExtraCharges, nextId>>

\* ------------------------------------------------------------ pure helpers
RECURSIVE SumQty(_, _)
\* total quantity the rows `rows` take from lot l
SumQty(rows, l) ==
    IF rows = <<>> THEN 0
    ELSE (IF Head(rows).inventoryId = l THEN Head(rows).quantity ELSE 0)
         + SumQty(Tail(rows), l)

RECURSIVE SumTotal(_)
SumTotal(rows) ==
    IF rows = <<>> THEN 0 ELSE Head(rows).total + SumTotal(Tail(rows))

RECURSIVE SumAmount(_)
SumAmount(amounts) ==
    IF amounts = <<>> THEN 0 ELSE Head(amounts) + SumAmount(Tail(amounts))

ZeroDelta == [l \in Lots |-> 0]

\* ------------------------------------------------------- request handlers
\* A handler frame: the request and the locals of the route function.
\* Two fields are bookkeeping: lotDelta is the net change this call has
\* applied to each lot's availableQuantity so far, lotGone says that the
\* restore loop of DELETE found the lot row of an item missing.
\* A third, laterFails, says of a POST refused at line i that a line after
\* i could not have been satisfied either when the call was refused.
IdleFrame ==
    [ op |-> "none", pc |-> "idle", userId |-> "none", billId |-> 0,
      body |-> <<>>, itemsData |-> <<>>, i |-> 0, newBill |-> 0,
      billItemsList |-> <<>>, currentInventory |-> {}, lotGone |-> FALSE,
      laterFails |-> FALSE, bill |-> {}, response |-> <<>>,
      result |-> "none", lotDelta |-> ZeroDelta ]

\* The frame after the handler returned: the response and what the call did.
Returned(f, res) ==
    [IdleFrame EXCEPT !.op = f.op, !.pc = "done", !.billId = f.billId,
                      !.newBill = f.newBill, !.billItemsList = f.billItemsList,
                      !.body = IF f.op \in {"PUT", "PATCH"} THEN f.body
                               ELSE IF f.op = "POST" /\ res = "Created"
                               THEN [status |-> f.body.status]
                               ELSE <<>>,
                      !.response = f.response,
                      !.lotGone = f.lotGone, !.laterFails = f.laterFails,
                      !.result = res, !.lotDelta = f.lotDelta]

CanBegin(p) ==
    /\ handler[p].pc \in {"idle", "done"}
    /\ IF sequential
       THEN calls < MaxCalls /\ \A q \in Procs : handler[q].pc \in {"idle", "done"}
       ELSE calls < MaxCalls

\* --------------------------------------------------------------- POST
Lines == [inventoryId : Lots, quantity : Quantities, sellingPrice : Prices]

CreateBodies ==
    [ clientId : Clients,
      items : UNION {[1..n -> Lines] : n \in LineCounts},
      taxRate : TaxRates,
      extraCharges : Charges,
      status : Statuses ]

\* Request bodies extendedBillSchema.parse refuses: no item, a quantity
\* of 0, a negative price, a tax rate above 100 and one below 0.
InvalidBodies ==
    LET line == [inventoryId |-> "L2", quantity |-> 1, sellingPrice |-> 500]
        base == [clientId |-> "c1", items |-> <<line>>, taxRate |-> 10,
                 extraCharges |-> <<>>, status |-> "due"]
    IN { [base EXCEPT !.items = <<>>],
         [base EXCEPT !.items = << [line EXCEPT !.quantity = 0] >>],
         [base EXCEPT !.items = << [line EXCEPT !.sellingPrice = -1] >>],
         [base EXCEPT !.taxRate = 101],
         [base EXCEPT !.taxRate = -1] }

\* Mutant of ValidBody: the tax rate is not checked.
ValidBodyAnyTaxRate(b) ==
    /\ Len(b.items) >= 1
    /\ \A k \in 1..Len(b.items) :
          b.items[k].quantity * 100 >= 1 /\ b.items[k].sellingPrice >= 0

\* extendedBillSchema.parse(body) does not throw: items.min(1),
\* quantity.min(0.01), sellingPrice.min(0), taxRate.min(0).max(100),
\* amount.min(0), status in ['due', 'paid'] or not given ("absent")
ValidBody(b) ==
    /\ Len(b.items) >= 1
    /\ \A k \in 1..Len(b.items) :
          b.items[k].quantity * 100 >= 1 /\ b.items[k].sellingPrice >= 0
    /\ b.taxRate >= 0 /\ b.taxRate <= 100
    /\ \A k \in 1..Len(b.extraCharges) : b.extraCharges[k] >= 0
    /\ b.status \in {"due", "paid", "absent"}

RECURSIVE Reversed(_)
\* Mutant of LineOrder: the last line first.
Reversed(items) ==
    IF items = <<>> THEN <<>> ELSE Append(Reversed(Tail(items)), Head(items))

\* `for (const item of items)`: the lines in the order the caller gave
LineOrder(items) == items

\* the line cannot be satisfied from table inv
LineFails(inv, item) ==
    \/ item.inventoryId \notin DOMAIN inv
    \/ inv[item.inventoryId].availableQuantity < item.quantity

\* UPDATE inventory SET availableQuantity = v WHERE id = l
\* (no row matches when the lot is gone).
SetAvailable(inv, l, v) ==
    IF l \in DOMAIN inv THEN [inv EXCEPT ![l].availableQuantity = v] ELSE inv

\* Mutant of InsufficientStock: only an empty lot is refused.
RefuseEmptyLotOnly(availableQty, quantity) == availableQty <= 0

\* Mutant of InsufficientStock: a line that asks for all that is left is
\* refused too.
RefuseExactFit(availableQty, quantity) == availableQty <= quantity

\* if (availableQty < item.quantity) -> 400 "Insufficient stock"
InsufficientStock(availableQty, quantity) == availableQty < quantity

\* Mutant of InventoryAfterValidate: each line is reserved as soon as it
\* has been checked.
ReserveWhileValidating(inv, item) ==
    IF item.inventoryId \in DOMAIN inv
       /\ inv[item.inventoryId].availableQuantity >= item.quantity
    THEN SetAvailable(inv, item.inventoryId,
                      inv[item.inventoryId].availableQuantity - item.quantity)
    ELSE inv

\* What the validation loop does to table inventory for one line: nothing,
\* it only selects the row.
InventoryAfterValidate(inv, item) == inv

\* newAvailableQuantity = parseFloat(item.inventoryItem.availableQuantity)
\*                        - parseFloat(item.quantity)
DecrementedQuantity(snapshot, quantity) == snapshot - quantity

\* the change of lot l's availableQuantity between two table states
Change(inv, inv2, l) ==
    IF l \in DOMAIN inv /\ l \in DOMAIN inv2
    THEN inv2[l].availableQuantity - inv[l].availableQuantity ELSE 0

AddDelta(delta, inv, inv2) ==
    [l \in Lots |-> delta[l] + Change(inv, inv2, l)]

\* the request arrives with a body of Bodies and is parsed; a ZodError is
\* answered 400 "Invalid request data" before any statement is issued
POST_BeginWith(p, Bodies) ==
    /\ CanBegin(p)
    /\ \E u \in Users, b \in Bodies :
          handler' = [handler EXCEPT ![p] =
              IF ValidBody(b)
              THEN [IdleFrame EXCEPT !.op = "POST", !.pc = "validate",
                                     !.userId = u, !.body = b, !.i = 1]
              ELSE Returned([IdleFrame EXCEPT !.op = "POST"], "ValidationError")]
    /\ calls' = calls + 1
    /\ UNCHANGED <<db, sequential>>

POST_Begin(p) == POST_BeginWith(p, CreateBodies \cup InvalidBodies)

\* one iteration of `for (const item of items)`: select the lot, check it
POST_Validate(p) ==
    LET f     == handler[p]
        items == LineOrder(f.body.items)
        item  == items[f.i]
        l     == item.inventoryId
        later == \E k \in (f.i + 1)..Len(items) : LineFails(inventory, items[k])
    IN
    /\ f.op = "POST" /\ f.pc = "validate"
    /\ inventory' = InventoryAfterValidate(inventory, item)
    /\ IF l \notin DOMAIN inventory
       THEN handler' = [handler EXCEPT ![p] =
                [Returned([f EXCEPT !.lotDelta = AddDelta(f.lotDelta, inventory, inventory')],
                          "LotNotFound") EXCEPT !.i = f.i, !.laterFails = later]]
       ELSE IF InsufficientStock(inventory[l].availableQuantity, item.quantity)
       THEN handler' = [handler EXCEPT ![p] =
                [Returned([f EXCEPT !.lotDelta = AddDelta(f.lotDelta, inventory, inventory')],
                          "InsufficientStock") EXCEPT !.i = f.i, !.laterFails = later]]
       ELSE handler' = [handler EXCEPT ![p] =
                [f EXCEPT
                   !.itemsData = Append(@,
                       [ inventoryId |-> l,
                         quantity |-> item.quantity,
                         sellingPrice |-> item.sellingPrice,
                         total |-> item.quantity * item.sellingPrice,
                         availableQuantity |-> inventory[l].availableQuantity ]),
                   !.lotDelta = AddDelta(@, inventory, inventory'),
                   !.i = IF f.i < Len(items) THEN f.i + 1 ELSE 0,
                   !.pc = IF f.i < Len(items) THEN "validate" ELSE "insertBill"]]
    /\ UNCHANGED <<bills, billItems, billExtraCharges, nextId, calls, sequential>>

\* Mutant of StoredStatus: every bill is created due.
AlwaysDue(status) == "due"

\* The status column of a new bill: the schema's default('due') for a body
\* without status, and `status || 'due'` in the insert.
StoredStatus(status) == IF status = "absent" THEN "due" ELSE status

\* Mutant of NewBillRow: the extra charges are taxed too.
BillRowTaxedCharges(f) ==
    LET subtotal          == SumTotal(f.itemsData)
        extraChargesTotal == SumAmount(f.body.extraCharges)
        tax               == ((subtotal + extraChargesTotal) * f.body.taxRate) \div 100
    IN [ userId |-> f.userId, clientId |-> f.body.clientId,
         subtotal |-> subtotal, taxRate |-> f.body.taxRate, tax |-> tax,
         extraChargesTotal |-> extraChargesTotal,
         total |-> subtotal + tax + extraChargesTotal,
         status |-> f.body.status ]

\* the bills row POST inserts
NewBillRow(f) ==
    LET subtotal          == SumTotal(f.itemsData)
        extraChargesTotal == SumAmount(f.body.extraCharges)
        tax               == (subtotal * f.body.taxRate) \div 100
    IN [ userId |-> f.userId, clientId |-> f.body.clientId,
         subtotal |-> subtotal, taxRate |-> f.body.taxRate, tax |-> tax,
         extraChargesTotal |-> extraChargesTotal,
         total |-> subtotal + tax + extraChargesTotal,
         status |-> StoredStatus(f.body.status) ]

POST_InsertBill(p) ==
    LET f == handler[p] IN
    /\ f.op = "POST" /\ f.pc = "insertBill"
    /\ nextId \in BillIds
    /\ bills' = (nextId :> NewBillRow(f)) @@ bills
    /\ nextId' = nextId + 1
    /\ handler' = [handler EXCEPT ![p] =
           [f EXCEPT !.newBill = nextId, !.pc = "insertItems"]]
    /\ UNCHANGED <<inventory, billItems, billExtraCharges, calls, sequential>>

BillItemRows(itemsData) ==
    [k \in 1..Len(itemsData) |->
        [ inventoryId |-> itemsData[k].inventoryId,
          quantity |-> itemsData[k].quantity,
          sellingPrice |-> itemsData[k].sellingPrice,
          total |-> itemsData[k].total ]]

\* db.insert(billItems): the foreign key needs the bills row
POST_InsertItems(p) ==
    LET f == handler[p] IN
    /\ f.op = "POST" /\ f.pc = "insertItems"
    /\ IF f.newBill \in DOMAIN bills
       THEN /\ billItems' = [billItems EXCEPT ![f.newBill] = @ \o BillItemRows(f.itemsData)]
            /\ handler' = [handler EXCEPT ![p] =
                  [f EXCEPT !.i = IF f.body.extraCharges = <<>> THEN 1 ELSE 0,
                            !.pc = IF f.body.extraCharges = <<>> THEN "decrement"
                                   ELSE "insertCharges"]]
       ELSE /\ billItems' = billItems
            /\ handler' = [handler EXCEPT ![p] = Returned(f, "Failed")]
    /\ UNCHANGED <<inventory, bills, billExtraCharges, nextId, calls, sequential>>

POST_InsertCharges(p) ==
    LET f == handler[p] IN
    /\ f.op = "POST" /\ f.pc = "insertCharges"
    /\ IF f.newBill \in DOMAIN bills
       THEN /\ billExtraCharges' =
                  [billExtraCharges EXCEPT ![f.newBill] = @ \o f.body.extraCharges]
            /\ handler' = [handler EXCEPT ![p] = [f EXCEPT !.i = 1, !.pc = "decrement"]]
       ELSE /\ billExtraCharges' = billExtraCharges
            /\ handler' = [handler EXCEPT ![p] = Returned(f, "Failed")]
    /\ UNCHANGED <<inventory, bills, billItems, nextId, calls, sequential>>

\* one iteration of `for (const item of itemsData)`: write the lot back from
\* the row read during validation
POST_Decrement(p) ==
    LET f    == handler[p]
        item == f.itemsData[f.i]
        g    == [f EXCEPT !.lotDelta = AddDelta(@, inventory, inventory')]
    IN
    /\ f.op = "POST" /\ f.pc = "decrement"
    /\ inventory' = SetAvailable(inventory, item.inventoryId,
                        DecrementedQuantity(item.availableQuantity, item.quantity))
    /\ handler' = [handler EXCEPT ![p] =
           IF f.i < Len(f.itemsData) THEN [g EXCEPT !.i = f.i + 1]
           ELSE Returned(g, "Created")]
    /\ UNCHANGED <<bills, billItems, billExtraCharges, nextId, calls, sequential>>

\* ------------------------------------------------------------- DELETE
\* newAvailableQuantity = parseFloat(currentInventory[0].availableQuantity)
\*                        + parseFloat(item.quantity)
RestoredQuantity(current, quantity) == current + quantity

\* Mutant of OwnedBill: the bill is looked up by id alone.
StoredBill(b, u) == b \in DOMAIN bills

\* rows of table bills matching WHERE id = b AND userId = u
OwnedBill(b, u) == b \in DOMAIN bills /\ bills[b].userId = u

\* Mutant of WithoutRowsOf: the delete has no WHERE clause.
WithoutAnyRows(rows, b) == [x \in DOMAIN rows |-> <<>>]

\* a child table after DELETE ... WHERE billId = b
WithoutRowsOf(rows, b) == [rows EXCEPT ![b] = <<>>]

\* table bills without row b
WithoutBill(b) == [x \in DOMAIN bills \ {b} |-> bills[x]]

DELETE_Begin(p) ==
    /\ CanBegin(p)
    /\ \E u \in Users, b \in 1..nextId :
          handler' = [handler EXCEPT ![p] =
              [IdleFrame EXCEPT !.op = "DELETE", !.pc = "checkBill",
                                !.userId = u, !.billId = b]]
    /\ calls' = calls + 1
    /\ UNCHANGED <<db, sequential>>

DELETE_CheckBill(p) ==
    LET f == handler[p] IN
    /\ f.op = "DELETE" /\ f.pc = "checkBill"
    /\ handler' = [handler EXCEPT ![p] =
           IF OwnedBill(f.billId, f.userId)
           THEN [f EXCEPT !.pc = "selectItems"]
           ELSE Returned(f, "NotFound")]
    /\ UNCHANGED <<db, calls, sequential>>

DELETE_SelectItems(p) ==
    LET f    == handler[p]
        rows == billItems[f.billId]
    IN
    /\ f.op = "DELETE" /\ f.pc = "selectItems"
    /\ handler' = [handler EXCEPT ![p] =
           [f EXCEPT !.billItemsList = rows,
                     !.i = IF rows = <<>> THEN 0 ELSE 1,
                     !.pc = IF rows = <<>> THEN "deleteItems" ELSE "readLot"]]
    /\ UNCHANGED <<db, calls, sequential>>

\* where the restore loop goes after item i
AfterItem(f) ==
    [f EXCEPT !.currentInventory = {},
              !.i = IF f.i < Len(f.billItemsList) THEN f.i + 1 ELSE 0,
              !.pc = IF f.i < Len(f.billItemsList) THEN "readLot" ELSE "deleteItems"]

\* What the restore loop does with an item whose lot row is gone
\* (currentInventory.length === 0): it goes on to the next item.
LotGone(f) == AfterItem([f EXCEPT !.lotGone = TRUE])

\* select the lot of item i
DELETE_ReadLot(p) ==
    LET f == handler[p]
        l == f.billItemsList[f.i].inventoryId
    IN
    /\ f.op = "DELETE" /\ f.pc = "readLot"
    /\ handler' = [handler EXCEPT ![p] =
           IF l \in DOMAIN inventory
           THEN [f EXCEPT !.currentInventory = {inventory[l].availableQuantity},
                          !.pc = "writeLot"]
           ELSE LotGone(f)]
    /\ UNCHANGED <<db, calls, sequential>>

\* update the lot of item i from the row just read
DELETE_WriteLot(p) ==
    LET f    == handler[p]
        item == f.billItemsList[f.i]
    IN
    /\ f.op = "DELETE" /\ f.pc = "writeLot"
    /\ \E current \in f.currentInventory :
          inventory' = SetAvailable(inventory, item.inventoryId,
                           RestoredQuantity(current, item.quantity))
    /\ handler' = [handler EXCEPT ![p] =
           AfterItem([f EXCEPT !.lotDelta = AddDelta(@, inventory, inventory')])]
    /\ UNCHANGED <<bills, billItems, billExtraCharges, nextId, calls, sequential>>

DELETE_DeleteItems(p) ==
    LET f == handler[p] IN
    /\ f.op = "DELETE" /\ f.pc = "deleteItems"
    /\ billItems' = WithoutRowsOf(billItems, f.billId)
    /\ handler' = [handler EXCEPT ![p] = [f EXCEPT !.pc = "deleteCharges"]]
    /\ UNCHANGED <<inventory, bills, billExtraCharges, nextId, calls, sequential>>

DELETE_DeleteCharges(p) ==
    LET f == handler[p] IN
    /\ f.op = "DELETE" /\ f.pc = "deleteCharges"
    /\ billExtraCharges' = WithoutRowsOf(billExtraCharges, f.billId)
    /\ handler' = [handler EXCEPT ![p] = [f EXCEPT !.pc = "deleteBill"]]
    /\ UNCHANGED <<inventory, bills, billItems, nextId, calls, sequential>>

\* db.delete(bills): the foreign keys refuse it while child rows exist
DELETE_DeleteBill(p) ==
    LET f == handler[p] IN
    /\ f.op = "DELETE" /\ f.pc = "deleteBill"
    /\ IF OwnedBill(f.billId, f.userId)
          /\ (billItems[f.billId] # <<>> \/ billExtraCharges[f.billId] # <<>>)
       THEN /\ bills' = bills
            /\ handler' = [handler EXCEPT ![p] = Returned(f, "Failed")]
       ELSE /\ bills' = IF OwnedBill(f.billId, f.userId)
                        THEN WithoutBill(f.billId) ELSE bills
            /\ handler' = [handler EXCEPT ![p] = Returned(f, "Deleted")]
    /\ UNCHANGED <<inventory, billItems, billExtraCharges, nextId, calls, sequential>>

\* ------------------------------------------------------------ PUT, PATCH
\* A request body: each field is absent ({}) or given ({v}).
PutBodies ==
    { [status |-> {"paid"}, taxRate |-> {}],
      [status |-> {}, taxRate |-> {20}] }

PatchBodies ==
    { [status |-> {"paid"}, total |-> {}],
      [status |-> {"due"}, total |-> {}],
      [status |-> {"void"}, total |-> {0}] }

\* the value a column gets from an optional field
Given(field, old) == IF field = {} THEN old ELSE CHOOSE v \in field : TRUE

\* PUT: updateData maps the allowed fields; derived amounts are not touched
PutRow(row, body) ==
    [row EXCEPT !.status = Given(body.status, @),
                !.taxRate = Given(body.taxRate, @)]

\* PATCH: .set({...body, updatedAt})
PatchRow(row, body) ==
    [row EXCEPT !.status = Given(body.status, @),
                !.total = Given(body.total, @)]

\* Mutant of InventoryAfterUpdate: marking a bill paid gives the stock of
\* its first line back.
ReleaseWhenPaid(inv, rows, body) ==
    IF body.status = {"paid"} /\ rows # <<>> /\ rows[1].inventoryId \in DOMAIN inv
    THEN SetAvailable(inv, rows[1].inventoryId,
                      inv[rows[1].inventoryId].availableQuantity + rows[1].quantity)
    ELSE inv

\* What PUT and PATCH do to table inventory: they issue no statement on it.
InventoryAfterUpdate(inv, rows, body) == inv

PUT_Begin(p) ==
    /\ CanBegin(p)
    /\ \E u \in Users, b \in 1..nextId, body \in PutBodies :
          handler' = [handler EXCEPT ![p] =
              [IdleFrame EXCEPT !.op = "PUT", !.pc = "checkBill",
                                !.userId = u, !.billId = b, !.body = body]]
    /\ calls' = calls + 1
    /\ UNCHANGED <<db, sequential>>

PUT_CheckBill(p) ==
    LET f == handler[p] IN
    /\ f.op = "PUT" /\ f.pc = "checkBill"
    /\ handler' = [handler EXCEPT ![p] =
           IF OwnedBill(f.billId, f.userId)
           THEN [f EXCEPT !.pc = "update"]
           ELSE Returned(f, "NotFound")]
    /\ UNCHANGED <<db, calls, sequential>>

PUT_Update(p) ==
    LET f == handler[p] IN
    /\ f.op = "PUT" /\ f.pc = "update"
    /\ bills' = IF OwnedBill(f.billId, f.userId)
                THEN [bills EXCEPT ![f.billId] = PutRow(@, f.body)]
                ELSE bills
    /\ inventory' = InventoryAfterUpdate(inventory, billItems[f.billId], f.body)
    /\ handler' = [handler EXCEPT ![p] = Returned(f, "Updated")]
    /\ UNCHANGED <<billItems, billExtraCharges, nextId, calls, sequential>>

PATCH_Begin(p) ==
    /\ CanBegin(p)
    /\ \E u \in Users, b \in 1..nextId, body \in PatchBodies :
          handler' = [handler EXCEPT ![p] =
              [IdleFrame EXCEPT !.op = "PATCH", !.pc = "checkBill",
                                !.userId = u, !.billId = b, !.body = body]]
    /\ calls' = calls + 1
    /\ UNCHANGED <<db, sequential>>

PATCH_CheckBill(p) ==
    LET f == handler[p] IN
    /\ f.op = "PATCH" /\ f.pc = "checkBill"
    /\ handler' = [handler EXCEPT ![p] =
           IF OwnedBill(f.billId, f.userId)
           THEN [f EXCEPT !.pc = "update"]
           ELSE Returned(f, "NotFound")]
    /\ UNCHANGED <<db, calls, sequential>>

PATCH_Update(p) ==
    LET f == handler[p] IN
    /\ f.op = "PATCH" /\ f.pc = "update"
    /\ bills' = IF OwnedBill(f.billId, f.userId)
                THEN [bills EXCEPT ![f.billId] = PatchRow(@, f.body)]
                ELSE bills
    /\ inventory' = InventoryAfterUpdate(inventory, billItems[f.billId], f.body)
    /\ handler' = [handler EXCEPT ![p] = Returned(f, "Updated")]
    /\ UNCHANGED <<billItems, billExtraCharges, nextId, calls, sequential>>

\* ---------------------------------------------------------------- GET
\* the columns GET selects from bills LEFT JOIN clients
BillHeader(b) ==
    [ id |-> b, subtotal |-> bills[b].subtotal, taxRate |-> bills[b].taxRate,
      tax |-> bills[b].tax, extraChargesTotal |-> bills[b].extraChargesTotal,
      total |-> bills[b].total, status |-> bills[b].status,
      client |-> bills[b].clientId ]

\* Mutant of FullBill: the extra charges are left out.
FullBillNoCharges(bill, items, charges) ==
    [ bill |-> bill, items |-> items, extraCharges |-> <<>> ]

\* fullBill = {...bill, items: billItemsResult, extraCharges: extraChargesResult}
FullBill(bill, items, charges) ==
    [ bill |-> bill, items |-> items, extraCharges |-> charges ]

GET_Begin(p) ==
    /\ CanBegin(p)
    /\ \E u \in Users, b \in 1..nextId :
          handler' = [handler EXCEPT ![p] =
              [IdleFrame EXCEPT !.op = "GET", !.pc = "selectBill",
                                !.userId = u, !.billId = b]]
    /\ calls' = calls + 1
    /\ UNCHANGED <<db, sequential>>

\* select the bill header WHERE id = billId AND userId = userId
GET_SelectBill(p) ==
    LET f == handler[p] IN
    /\ f.op = "GET" /\ f.pc = "selectBill"
    /\ handler' = [handler EXCEPT ![p] =
           IF OwnedBill(f.billId, f.userId)
           THEN [f EXCEPT !.bill = {BillHeader(f.billId)}, !.pc = "selectItems"]
           ELSE Returned(f, "NotFound")]
    /\ UNCHANGED <<db, calls, sequential>>

\* select the bill items WHERE billId = billId
GET_SelectItems(p) ==
    LET f == handler[p] IN
    /\ f.op = "GET" /\ f.pc = "selectItems"
    /\ handler' = [handler EXCEPT ![p] =
           [f EXCEPT !.billItemsList = billItems[f.billId], !.pc = "selectCharges"]]
    /\ UNCHANGED <<db, calls, sequential>>

\* select the extra charges WHERE billId = billId and answer the bill
GET_SelectCharges(p) ==
    LET f == handler[p] IN
    /\ f.op = "GET" /\ f.pc = "selectCharges"
    /\ handler' = [handler EXCEPT ![p] =
           Returned([f EXCEPT !.billItemsList = <<>>,
                              !.response = FullBill(CHOOSE b \in f.bill : TRUE,
                                                    f.billItemsList,
                                                    billExtraCharges[f.billId])],
                    "Fetched")]
    /\ UNCHANGED <<db, calls, sequential>>

\* ------------------------------------------------------- GET (list)
\* ids of the bills WHERE userId = u; ids are handed out in creation order
BillsOf(u) == {b \in DOMAIN bills : bills[b].userId = u}

RECURSIVE OrderByCreatedAsc(_)
\* Mutant of OrderByCreatedDesc: oldest first.
OrderByCreatedAsc(S) ==
    IF S = {} THEN <<>>
    ELSE LET m == CHOOSE x \in S : \A y \in S : x <= y
         IN <<m>> \o OrderByCreatedAsc(S \ {m})

RECURSIVE OrderByCreatedDesc(_)
\* .orderBy(desc(bills.createdAt))
OrderByCreatedDesc(S) ==
    IF S = {} THEN <<>>
    ELSE LET m == CHOOSE x \in S : \A y \in S : x >= y
         IN <<m>> \o OrderByCreatedDesc(S \ {m})

LIST_Begin(p) ==
    /\ CanBegin(p)
    /\ \E u \in Users :
          handler' = [handler EXCEPT ![p] =
              [IdleFrame EXCEPT !.op = "LIST", !.pc = "select", !.userId = u]]
    /\ calls' = calls + 1
    /\ UNCHANGED <<db, sequential>>

\* the one select of the list route and its answer
LIST_Select(p) ==
    LET f     == handler[p]
        order == OrderByCreatedDesc(BillsOf(f.userId))
    IN
    /\ f.op = "LIST" /\ f.pc = "select"
    /\ handler' = [handler EXCEPT ![p] =
           Returned([f EXCEPT !.response =
                        [k \in 1..Len(order) |-> BillHeader(order[k])]],
                    "Listed")]
    /\ UNCHANGED <<db, calls, sequential>>

\* ------------------------------------------------------------ environment
\* A database statement throws: the catch block answers 500 and whatever
\* the handler has written so far stays written.
Throw(p) ==
    /\ handler[p].pc \notin {"idle", "done"}
    /\ handler' = [handler EXCEPT ![p] = Returned(handler[p], "Failed")]
    /\ UNCHANGED <<db, calls, sequential>>

\* A lot row is hard-deleted by the inventory routes.
LotVanishes ==
    /\ DOMAIN inventory = Lots
    /\ \E l \in Lots :
          inventory' = [x \in Lots \ {l} |-> inventory[x]]
    /\ UNCHANGED <<bills, billItems, billExtraCharges, nextId, handler, calls, sequential>>

\* table clients: the account each client row belongs to
ClientOwner == [c \in Clients |-> "u1"]

\* The database at the start: bill 1 of account u1 holds 1 of lot L1.
InitialInventory ==
    [l \in Lots |->
        [ userId |-> IF l = "L1" THEN "u1" ELSE "u2",
          quantity |-> 2,
          availableQuantity |-> IF l = "L1" THEN 1 ELSE 2 ]]

InitialBill ==
    [ userId |-> "u1", clientId |-> "c1", subtotal |-> 500, taxRate |-> 10,
      tax |-> 50, extraChargesTotal |-> 30000, total |-> 30550, status |-> "due" ]

InitDb ==
    /\ inventory = InitialInventory
    /\ bills = (1 :> InitialBill)
    /\ billItems = [b \in BillIds |->
           IF b = 1 THEN << [inventoryId |-> "L1", quantity |-> 1,
                             sellingPrice |-> 500, total |-> 500] >>
           ELSE <<>>]
    /\ billExtraCharges = [b \in BillIds |-> IF b = 1 THEN <<30000>> ELSE <<>>]
    /\ nextId = 2
    /\ handler = [p \in Procs |-> IdleFrame]
    /\ calls = 0

Init == InitDb /\ sequential = FALSE

InitSeq == InitDb /\ sequential = TRUE

Step(p) ==
    \/ POST_Validate(p)
    \/ POST_InsertBill(p)
    \/ POST_InsertItems(p)
    \/ POST_InsertCharges(p)
    \/ POST_Decrement(p)
    \/ DELETE_CheckBill(p)
    \/ DELETE_SelectItems(p)
    \/ DELETE_ReadLot(p)
    \/ DELETE_WriteLot(p)
    \/ DELETE_DeleteItems(p)
    \/ DELETE_DeleteCharges(p)
    \/ DELETE_DeleteBill(p)
    \/ PUT_CheckBill(p)
    \/ PUT_Update(p)
    \/ PATCH_CheckBill(p)
    \/ PATCH_Update(p)
    \/ GET_SelectBill(p)
    \/ GET_SelectItems(p)
    \/ GET_SelectCharges(p)

Begin(p) ==
    \/ POST_Begin(p)
    \/ GET_Begin(p)
    \/ DELETE_Begin(p)
    \/ PUT_Begin(p)
    \/ PATCH_Begin(p)

Next ==
    \/ \E p \in Procs : Begin(p) \/ Step(p) \/ Throw(p)
    \/ LotVanishes

\* requests handled concurrently
Spec == Init /\ [][Next]_vars

\* requests handled one at a time
SpecSeq == InitSeq /\ [][Next]_vars

\* requests handled one at a time, no statement throws
NextNoThrow ==
    \/ \E p \in Procs : Begin(p) \/ Step(p)
    \/ LotVanishes

SpecSeqNoThrow == InitSeq /\ [][NextNoThrow]_vars

\* concurrent createBill calls alone, no statement throws
NextCreate ==
    \E p \in Procs :
        \/ POST_Begin(p)
        \/ POST_Validate(p)
        \/ POST_InsertBill(p)
        \/ POST_InsertItems(p)
        \/ POST_InsertCharges(p)
        \/ POST_Decrement(p)

SpecCreate == Init /\ [][NextCreate]_vars

\* createBill calls one at a time with prices of 5.50 and 10.00, a charge
\* of 3.00 and a tax rate of 10, no statement throws
TotalsBodies ==
    [ clientId : Clients,
      items : UNION {[1..n -> [inventoryId : Lots, quantity : Quantities,
                               sellingPrice : {55000, 100000}]] : n \in LineCounts},
      taxRate : TaxRates,
      extraCharges : {<<30000>>},
      status : Statuses ]

NextTotals ==
    \E p \in Procs :
        \/ POST_BeginWith(p, TotalsBodies)
        \/ POST_Validate(p)
        \/ POST_InsertBill(p)
        \/ POST_InsertItems(p)
        \/ POST_InsertCharges(p)
        \/ POST_Decrement(p)

SpecTotals == InitSeq /\ [][NextTotals]_vars

\* createBill calls one at a time, each for one unit of one lot, with the
\* status not given, due or paid; no statement throws
StatusBodies ==
    [ clientId : Clients,
      items : [1..1 -> [inventoryId : Lots, quantity : {1}, sellingPrice : Prices]],
      taxRate : TaxRates,
      extraCharges : {<<>>},
      status : {"absent", "due", "paid"} ]

NextStatus ==
    \E p \in Procs :
        \/ POST_BeginWith(p, StatusBodies)
        \/ POST_Validate(p)
        \/ POST_InsertBill(p)
        \/ POST_InsertItems(p)
        \/ POST_Decrement(p)

SpecStatus == InitSeq /\ [][NextStatus]_vars

\* createBill and listBills calls one at a time, no statement throws
ListBodies ==
    [ clientId : Clients,
      items : [1..1 -> [inventoryId : Lots, quantity : {1}, sellingPrice : Prices]],
      taxRate : TaxRates,
      extraCharges : {<<>>},
      status : Statuses ]

NextList ==
    \E p \in Procs :
        \/ POST_BeginWith(p, ListBodies)
        \/ POST_Validate(p)
        \/ POST_InsertBill(p)
        \/ POST_InsertItems(p)
        \/ POST_Decrement(p)
        \/ LIST_Begin(p)
        \/ LIST_Select(p)

SpecList == InitSeq /\ [][NextList]_vars

\* concurrent getBill, createBill and deleteBill calls, no statement throws
ReadBodies ==
    [ clientId : Clients,
      items : [1..1 -> [inventoryId : Lots, quantity : {1}, sellingPrice : Prices]],
      taxRate : TaxRates,
      extraCharges : {<<30000>>},
      status : Statuses ]

NextRead ==
    \E p \in Procs :
        \/ GET_Begin(p)
        \/ GET_SelectBill(p)
        \/ GET_SelectItems(p)
        \/ GET_SelectCharges(p)
        \/ POST_BeginWith(p, ReadBodies)
        \/ POST_Validate(p)
        \/ POST_InsertBill(p)
        \/ POST_InsertItems(p)
        \/ POST_InsertCharges(p)
        \/ POST_Decrement(p)
        \/ DELETE_Begin(p)
        \/ DELETE_CheckBill(p)
        \/ DELETE_SelectItems(p)
        \/ DELETE_ReadLot(p)
        \/ DELETE_WriteLot(p)
        \/ DELETE_DeleteItems(p)
        \/ DELETE_DeleteCharges(p)
        \/ DELETE_DeleteBill(p)

SpecRead == Init /\ [][NextRead]_vars

\* ------------------------------------------------------------------ claims
Frame(p) == handler[p]

RECURSIVE SumOver(_, _, _)
\* sum of Op(x, l) over the elements x of the set S
SumOver(Op(_, _), S, l) ==
    IF S = {} THEN 0
    ELSE LET x == CHOOSE y \in S : TRUE IN Op(x, l) + SumOver(Op, S \ {x}, l)

\* no two rows name the same lot
DistinctLots(rows) ==
    \A a, b \in 1..Len(rows) : a # b => rows[a].inventoryId # rows[b].inventoryId

\* what the call of p took from lot l according to its bill, when the call
\* succeeded with every lot on one line and the bill is still stored
CreatedQty(p, l) ==
    IF /\ Frame(p).op = "POST" /\ Frame(p).result = "Created"
       /\ Frame(p).newBill \in DOMAIN bills
       /\ DistinctLots(billItems[Frame(p).newBill])
    THEN SumQty(billItems[Frame(p).newBill], l) ELSE 0

\* C1: concurrent createBill calls never oversell: the quantities of the
\* calls that succeeded sum, per lot, to at most the availableQuantity the
\* lot had before the calls, and every other call was refused.
C1_NoOversell ==
    /\ \A l \in Lots :
          SumOver(CreatedQty, Procs, l) <= InitialInventory[l].availableQuantity
    /\ \A p \in Procs :
          Frame(p).op = "POST" /\ Frame(p).pc = "done"
              => Frame(p).result \in {"Created", "InsufficientStock"}

\* the validation loop of p is at a line that asks for more than its lot has
AtShortLine(p) ==
    /\ handler[p].op = "POST" /\ handler[p].pc = "validate"
    /\ LET item == handler[p].body.items[handler[p].i] IN
         /\ item.inventoryId \in DOMAIN inventory
         /\ item.quantity > inventory[item.inventoryId].availableQuantity

\* C2: a createBill call whose validation meets a line, at whatever
\* position, that asks for more than its lot's availableQuantity is refused
\* there without a write, and a call refused for stock has changed no lot
\* and has written no bill row.
C2_RefusedCallWritesNothing ==
    /\ [](\A p \in Procs :
            Frame(p).op = "POST" /\ Frame(p).result = "InsufficientStock"
                => Frame(p).lotDelta = ZeroDelta /\ Frame(p).newBill = 0)
    /\ [][ \A p \in Procs :
             AtShortLine(p) /\ handler'[p] # handler[p]
             => /\ handler'[p].result \in {"InsufficientStock", "Failed"}
                /\ inventory' = inventory /\ bills' = bills
                /\ billItems' = billItems /\ billExtraCharges' = billExtraCharges ]_vars

\* a call was refused at its second line, after the first line had passed
C2_Witness ==
    \E p \in Procs :
        /\ Frame(p).op = "POST" /\ Frame(p).result = "InsufficientStock"
        /\ Frame(p).i = 2

\* C3: a createBill call that fails after validation leaves no row of its
\* bill and no lot changed.
C3_FailedCreateLeavesNothing ==
    \A p \in Procs :
        Frame(p).op = "POST" /\ Frame(p).result = "Failed"
            => /\ Frame(p).lotDelta = ZeroDelta
               /\ \/ Frame(p).newBill = 0
                  \/ /\ Frame(p).newBill \notin DOMAIN bills
                     /\ billItems[Frame(p).newBill] = <<>>
                     /\ billExtraCharges[Frame(p).newBill] = <<>>

\* C4: a bill accepted by createBill and then removed by deleteBill leaves
\* every lot's availableQuantity where it was before the create.
C4_Conservation ==
    \A p, q \in Procs :
        /\ Frame(p).op = "POST" /\ Frame(p).result = "Created"
        /\ Frame(q).op = "DELETE" /\ Frame(q).result = "Deleted"
        /\ Frame(q).billId = Frame(p).newBill
        => \A l \in DOMAIN inventory :
               Frame(p).lotDelta[l] + Frame(q).lotDelta[l] = 0

\* no call is in progress
Quiescent == \A p \in Procs : Frame(p).pc \in {"idle", "done"}

\* C5: whenever no call is in progress, every lot has
\* availableQuantity <= quantity.
C5_AvailableAtMostQuantity ==
    Quiescent =>
        \A l \in DOMAIN inventory :
            inventory[l].availableQuantity <= inventory[l].quantity

\* C6: every lot has availableQuantity >= 0.
C6_AvailableNonNegative ==
    \A l \in DOMAIN inventory : inventory[l].availableQuantity >= 0

\* a create and another create or delete both changed the same lot, which
\* now has nothing available
C6_Witness ==
    \E p, q \in Procs, l \in DOMAIN inventory :
        /\ p # q
        /\ Frame(p).op = "POST" /\ Frame(p).result = "Created"
        /\ Frame(p).lotDelta[l] < 0
        /\ Frame(q).op \in {"POST", "DELETE"} /\ Frame(q).lotDelta[l] # 0
        /\ inventory[l].availableQuantity = 0

\* quantity of lot l in the item rows of stored bill b
BillQty(b, l) == SumQty(billItems[b], l)

\* C7: whenever no call is in progress, for every lot the item quantities
\* of the stored bills that name the lot sum to at most the lot's quantity.
C7_ReservedAtMostQuantity ==
    Quiescent =>
        \A l \in DOMAIN inventory :
            SumOver(BillQty, DOMAIN bills, l) <= inventory[l].quantity

\* C8: a deleteBill call that finds the lot of an item missing reports an
\* error, leaves the bill and its items stored and changes no lot.
C8_VanishedLotAbortsDelete ==
    \A p \in Procs :
        Frame(p).op = "DELETE" /\ Frame(p).pc = "done" /\ Frame(p).lotGone
            => /\ Frame(p).result = "Failed"
               /\ Frame(p).billId \in DOMAIN bills
               /\ billItems[Frame(p).billId] = Frame(p).billItemsList
               /\ Frame(p).lotDelta = ZeroDelta

\* the item rows of the bill two deleteBill calls worked on
ItemsSeen(p, q) ==
    IF Frame(q).billItemsList # <<>> THEN Frame(q).billItemsList
    ELSE Frame(p).billItemsList

\* C9: when a deleteBill call failed and another call for the same bill
\* succeeded, the two together raised each lot by the bill's item
\* quantities once.
C9_RetriedDeleteReleasesOnce ==
    \A p, q \in Procs :
        /\ Frame(p).op = "DELETE" /\ Frame(p).result = "Failed"
        /\ Frame(q).op = "DELETE" /\ Frame(q).result = "Deleted"
        /\ Frame(q).billId = Frame(p).billId
        => \A l \in DOMAIN inventory :
               Frame(p).lotDelta[l] + Frame(q).lotDelta[l]
                   = SumQty(ItemsSeen(p, q), l)

\* C10: no step of a PUT or PATCH call, whatever the call answers, changes
\* a lot, a bill item or an extra charge.
C10_UpdatesLeaveStock ==
    [][ \A p \in Procs :
          /\ handler[p].op \in {"PUT", "PATCH"}
          /\ handler[p].pc \notin {"idle", "done"}
          /\ handler'[p] # handler[p]
          => /\ inventory' = inventory
             /\ billItems' = billItems
             /\ billExtraCharges' = billExtraCharges ]_vars

\* bill 1 was marked paid by one PATCH and due again by another, and its
\* lot and rows are as they were
C10_Witness ==
    \E p, q \in Procs :
        /\ p # q
        /\ Frame(p).op = "PATCH" /\ Frame(p).result = "Updated"
        /\ Frame(q).op = "PATCH" /\ Frame(q).result = "Updated"
        /\ Frame(p).billId = 1 /\ Frame(q).billId = 1
        /\ Frame(p).body.status = {"paid"} /\ Frame(q).body.status = {"due"}
        /\ 1 \in DOMAIN bills /\ bills[1].status = "due"
        /\ inventory = InitialInventory
        /\ billItems[1] # <<>> /\ billExtraCharges[1] # <<>>

\* C11: after a PUT that stored a new taxRate, the bill's tax is
\* subtotal * taxRate / 100 for that rate and its total is
\* subtotal + tax + extraChargesTotal.
C11_TaxRecomputed ==
    \A p \in Procs :
        /\ Frame(p).op = "PUT" /\ Frame(p).result = "Updated"
        /\ Frame(p).body.taxRate # {}
        /\ Frame(p).billId \in DOMAIN bills
        /\ bills[Frame(p).billId].taxRate \in Frame(p).body.taxRate
        => LET b == bills[Frame(p).billId] IN
           /\ b.tax * 100 = b.subtotal * b.taxRate
           /\ b.total = b.subtotal + b.tax + b.extraChargesTotal

\* C12: every stored bill has total = subtotal + tax + extraChargesTotal.
C12_TotalIsSum ==
    \A b \in DOMAIN bills :
        bills[b].total = bills[b].subtotal + bills[b].tax + bills[b].extraChargesTotal

\* C13: every stored bill's status is due or paid.
C13_StatusDueOrPaid ==
    \A b \in DOMAIN bills : bills[b].status \in {"due", "paid"}

\* C14: no step of a createBill or deleteBill call changes the
\* availableQuantity of a lot of another account, and a createBill line
\* that names such a lot is refused as not found.
C14_NoCrossAccountStock ==
    [][ \A p \in Procs :
          /\ handler[p].op \in {"POST", "DELETE"}
          /\ handler[p].pc \notin {"idle", "done"}
          /\ handler'[p] # handler[p]
          => /\ \A l \in DOMAIN inventory :
                    inventory'[l].availableQuantity # inventory[l].availableQuantity
                        => inventory[l].userId = handler[p].userId
             /\ handler[p].pc = "validate"
                    => LET l == handler[p].body.items[handler[p].i].inventoryId IN
                       l \in DOMAIN inventory /\ inventory[l].userId # handler[p].userId
                           => handler'[p].result = "LotNotFound" ]_vars

\* C15: every stored bill names a client of the account the bill belongs
\* to.
C15_ClientOfSameAccount ==
    \A b \in DOMAIN bills : ClientOwner[bills[b].clientId] = bills[b].userId

\* the first statement of p looks up a bill that is not stored or belongs
\* to another account
AtForeignBill(p) ==
    /\ handler[p].op \in {"GET", "PUT", "PATCH", "DELETE"}
    /\ handler[p].pc \in {"selectBill", "checkBill"}
    /\ \/ handler[p].billId \notin DOMAIN bills
       \/ bills[handler[p].billId].userId # handler[p].userId

\* C16: a GET, PUT, PATCH or DELETE call that looks up a bill which is not
\* stored or belongs to another account answers not found (or fails) and
\* changes no table, and a call answered not found has changed no lot.
C16_ForeignBillNotFound ==
    /\ [](\A p \in Procs :
            Frame(p).result = "NotFound" => Frame(p).lotDelta = ZeroDelta)
    /\ [][ \A p \in Procs :
             AtForeignBill(p) /\ handler'[p] # handler[p]
             => /\ handler'[p].result \in {"NotFound", "Failed"}
                /\ db' = db ]_vars

\* a DELETE and a PUT for bill 1 of account u1 were answered not found
\* while the bill is stored as it was
C16_Witness ==
    \E p, q \in Procs :
        /\ Frame(p).op = "DELETE" /\ Frame(p).result = "NotFound"
        /\ Frame(q).op = "PUT" /\ Frame(q).result = "NotFound"
        /\ Frame(p).billId = 1 /\ Frame(q).billId = 1
        /\ 1 \in DOMAIN bills /\ bills[1] = InitialBill
        /\ billItems[1] # <<>> /\ inventory = InitialInventory

\* what the claim asks of a body for the call to go on
WellFormed(b) ==
    /\ b.items # <<>>
    /\ \A k \in 1..Len(b.items) :
          b.items[k].quantity > 0 /\ b.items[k].sellingPrice >= 0
    /\ b.taxRate \in 0..100

\* C17: a createBill call goes past parsing only with at least one item,
\* every quantity > 0, every price >= 0 and a taxRate within [0,100], and
\* a call answered with a validation error has written no row and changed
\* no lot.
C17_ValidationBeforeMutation ==
    \A p \in Procs :
        /\ Frame(p).op = "POST" /\ Frame(p).pc \notin {"idle", "done"}
               => WellFormed(Frame(p).body)
        /\ Frame(p).op = "POST" /\ Frame(p).result = "ValidationError"
               => Frame(p).lotDelta = ZeroDelta /\ Frame(p).newBill = 0

\* both calls were answered with a validation error and the tables are as
\* they were at the start
C17_Witness ==
    /\ \A p \in Procs :
          Frame(p).op = "POST" /\ Frame(p).result = "ValidationError"
    /\ bills = (1 :> InitialBill) /\ inventory = InitialInventory
    /\ nextId = 2

\* C18: the line a createBill call is refused for is the first line, in
\* the order of the request, that cannot be satisfied: it cannot be
\* satisfied itself, every line before it passed and can still be
\* satisfied, and the answer says whether the lot is missing or short.
C18_FirstFailureWins ==
    [][ \A p \in Procs :
          /\ handler[p].op = "POST" /\ handler[p].pc = "validate"
          /\ handler'[p].result \in {"InsufficientStock", "LotNotFound"}
          => LET f     == handler[p]
                 items == f.body.items
             IN /\ handler'[p].i = f.i
                /\ LineFails(inventory, items[f.i])
                /\ (handler'[p].result = "LotNotFound")
                       = (items[f.i].inventoryId \notin DOMAIN inventory)
                /\ Len(f.itemsData) = f.i - 1
                /\ \A j \in 1..(f.i - 1) :
                      /\ f.itemsData[j].inventoryId = items[j].inventoryId
                      /\ f.itemsData[j].availableQuantity >= items[j].quantity
                      /\ items[j].inventoryId \in DOMAIN inventory
                             => ~LineFails(inventory, items[j]) ]_vars

\* a call was refused for its first line while a later line could not be
\* satisfied either
C18_Witness ==
    \E p \in Procs :
        /\ Frame(p).op = "POST"
        /\ Frame(p).result \in {"InsufficientStock", "LotNotFound"}
        /\ Frame(p).i = 1 /\ Frame(p).laterFails

RECURSIVE LineSum(_)
\* sum of quantity * sellingPrice over item rows
LineSum(rows) ==
    IF rows = <<>> THEN 0
    ELSE Head(rows).quantity * Head(rows).sellingPrice + LineSum(Tail(rows))

C20_TaxInWholeCents ==
    \A p \in Procs :
        /\ Frame(p).op = "POST" /\ Frame(p).result = "Created"
        /\ Frame(p).newBill \in DOMAIN bills
        => /\ bills[Frame(p).newBill].tax % 100 = 0
           /\ bills[Frame(p).newBill].total % 100 = 0

C22_StatusDefaultsToDue ==
    \A p \in Procs :
        /\ Frame(p).op = "POST" /\ Frame(p).result = "Created"
        /\ Frame(p).newBill \in DOMAIN bills
        => /\ bills[Frame(p).newBill].status
                  = (IF Frame(p).body.status = "paid" THEN "paid" ELSE "due")
           /\ \A l \in Lots :
                  Frame(p).lotDelta[l] = 0 - SumQty(billItems[Frame(p).newBill], l)

\* one bill created without a status is stored due, another created paid
\* is stored paid, and both took the same quantity from the same lot
C22_Witness ==
    \E p, q \in Procs :
        /\ Frame(p).op = "POST" /\ Frame(p).result = "Created"
        /\ Frame(q).op = "POST" /\ Frame(q).result = "Created"
        /\ Frame(p).body.status = "absent" /\ Frame(q).body.status = "paid"
        /\ bills[Frame(p).newBill].status = "due"
        /\ bills[Frame(q).newBill].status = "paid"
        /\ billItems[Frame(p).newBill] = billItems[Frame(q).newBill]
        /\ Frame(p).lotDelta = Frame(q).lotDelta
        /\ Frame(p).lotDelta # ZeroDelta

\* C23: a getBill call answers the header, the items and the extra
\* charges as they are stored when it returns, so that two calls with no
\* mutation between them answer the same, and no step of a getBill call
\* changes a table.
C23_ReadIsIdempotent ==
    [][ \A p \in Procs :
          handler[p].op = "GET" /\ handler'[p] # handler[p]
          => /\ db' = db
             /\ handler'[p].result = "Fetched"
                   => LET b == handler[p].billId IN
                      /\ b \in DOMAIN bills
                      /\ handler'[p].response.bill.id = b
                      /\ handler'[p].response.bill.total = bills[b].total
                      /\ handler'[p].response.bill.subtotal = bills[b].subtotal
                      /\ handler'[p].response.bill.tax = bills[b].tax
                      /\ handler'[p].response.bill.taxRate = bills[b].taxRate
                      /\ handler'[p].response.bill.status = bills[b].status
                      /\ handler'[p].response.items = billItems[b]
                      /\ handler'[p].response.extraCharges = billExtraCharges[b] ]_vars

\* two getBill calls for bill 1 answered the same header, item and charge
C23_Witness ==
    \E p, q \in Procs :
        /\ p # q
        /\ Frame(p).op = "GET" /\ Frame(p).result = "Fetched"
        /\ Frame(q).op = "GET" /\ Frame(q).result = "Fetched"
        /\ Frame(p).billId = 1 /\ Frame(q).billId = 1
        /\ Frame(p).response = Frame(q).response
        /\ Frame(p).response.items # <<>>
        /\ Frame(p).response.extraCharges # <<>>

\* C24: listBills answers every stored bill of the calling account once,
\* no bill of another account, newest first.
C24_ListOwnBillsNewestFirst ==
    [][ \A p \in Procs :
          /\ handler[p].op = "LIST" /\ handler[p].pc = "select"
          /\ handler'[p].result = "Listed"
          => LET r == handler'[p].response IN
             /\ {r[k].id : k \in 1..Len(r)}
                   = {b \in DOMAIN bills : bills[b].userId = handler[p].userId}
             /\ \A j, k \in 1..Len(r) : j < k => r[j].id > r[k].id ]_vars

\* one account was answered its two bills, the newer first, and the other
\* account would be answered none
C24_Witness ==
    \E p \in Procs :
        /\ Frame(p).op = "LIST" /\ Frame(p).result = "Listed"
        /\ Len(Frame(p).response) = 2
        /\ Frame(p).response[1].id = 2 /\ Frame(p).response[2].id = 1
        /\ BillsOf("u2") = {}

\* C25: a createBill line whose lot is stored is refused for stock exactly
\* when its quantity is greater than the lot's availableQuantity, and the
\* decrement of a line that asked for all of it leaves the lot at 0.
C25_ReservationBoundary ==
    [][ \A p \in Procs :
          handler[p].op = "POST" /\ handler'[p] # handler[p]
          => LET f == handler[p] IN
             /\ f.pc = "validate"
                   /\ f.body.items[f.i].inventoryId \in DOMAIN inventory
                => (handler'[p].result = "InsufficientStock")
                      = (f.body.items[f.i].quantity
                            > inventory[f.body.items[f.i].inventoryId].availableQuantity)
             /\ f.pc = "decrement"
                   /\ f.itemsData[f.i].inventoryId \in DOMAIN inventory
                   /\ f.itemsData[f.i].quantity = f.itemsData[f.i].availableQuantity
                => inventory'[f.itemsData[f.i].inventoryId].availableQuantity = 0 ]_vars

\* one call took the last unit of lot L1 and left it at 0, and the next
\* call was refused for stock
C25_Witness ==
    \E p, q \in Procs :
        /\ Frame(p).op = "POST" /\ Frame(p).result = "Created"
        /\ Frame(p).lotDelta["L1"] = -1
        /\ "L1" \in DOMAIN inventory /\ inventory["L1"].availableQuantity = 0
        /\ Frame(q).op = "POST" /\ Frame(q).result = "InsufficientStock"

\* C26: of two deleteBill calls for the same bill that both returned
\* without a failure, at most one reports the deletion, and together they
\* raised each lot by the bill's item quantities once.
C26_ConcurrentDeletesReleaseOnce ==
    \A p, q \in Procs :
        /\ p # q
        /\ Frame(p).op = "DELETE" /\ Frame(p).result \in {"Deleted", "NotFound"}
        /\ Frame(q).op = "DELETE" /\ Frame(q).result \in {"Deleted", "NotFound"}
        /\ Frame(q).billId = Frame(p).billId
        /\ Frame(p).result = "Deleted"
        => /\ Frame(q).result = "NotFound"
           /\ \A l \in DOMAIN inventory :
                  Frame(p).lotDelta[l] + Frame(q).lotDelta[l]
                      = SumQty(Frame(p).billItemsList, l)

\* C27: whenever no call is in progress and every stored bill names each
\* lot on one line, every lot has availableQuantity = quantity minus the
\* item quantities of the stored bills that name it.
C27_NoLostUpdate ==
    Quiescent /\ (\A b \in DOMAIN bills : DistinctLots(billItems[b]))
        => \A l \in DOMAIN inventory :
               inventory[l].availableQuantity
                   = inventory[l].quantity - SumOver(BillQty, DOMAIN bills, l)

\* C28: an accepted createBill call has lowered every lot by the sum of
\* the quantities of its lines that name the lot.
C28_RepeatedLotTakesSum ==
    \A p \in Procs :
        /\ Frame(p).op = "POST" /\ Frame(p).result = "Created"
        /\ Frame(p).newBill \in DOMAIN bills
        => \A l \in DOMAIN inventory :
               Frame(p).lotDelta[l] = 0 - SumQty(billItems[Frame(p).newBill], l)

\* C29: a step of a PATCH call changes no column of a bill but status.
C29_PatchChangesOnlyStatus ==
    [][ \A p \in Procs :
          handler[p].op = "PATCH" /\ handler'[p] # handler[p]
          => /\ DOMAIN bills' = DOMAIN bills
             /\ \A b \in DOMAIN bills :
                   [bills'[b] EXCEPT !.status = bills[b].status] = bills[b] ]_vars

\* C30: a getBill call that answers a bill answers it with its items.
C30_ReadsSeeWholeBills ==
    \A p \in Procs :
        Frame(p).op = "GET" /\ Frame(p).result = "Fetched"
            => Frame(p).response.items # <<>>

====
